---- MODULE Spec2Model ----
(***************************************************************************)
(* Disaster-Relief-Optimizer: the resource allocation core                 *)
(* (src/src/resource_allocator.py, class ResourceAllocator), the severity  *)
(* labelling and category encoding of src/src/data_preprocessing.py and    *)
(* the rule-based scorer of src/dashboard_working.py.                      *)
(*                                                                         *)
(* Python dicts of the allocator are functions over the resource kinds,    *)
(* Python lists are sequences, and the two pool dicts of a pass (the       *)
(* caller's and the copy made by dict.copy()) are objects of a small heap, *)
(* so that aliasing is visible.  Floating point products are modelled with *)
(* exact scaled integers: rates in hundredths, multipliers and factors in  *)
(* tenths, log10 in thousandths.  On the inputs explored here the exact    *)
(* results equal the double precision ones of the source; from about 100   *)
(* people on, a product such as 45 * 1.4 is 62.99999999999999 in doubles   *)
(* and int() gives one less than the exact floor.                          *)
(***************************************************************************)
EXTENDS Integers, Sequences, FiniteSets, TLC

VARIABLES pc, call, disasters, pool_initial, heap, available_resources,
          remaining_resources, disaster_needs, total_needs, allocations, result,
          df, severity_labels, prediction, label_encoders, input_data, df_encoded,
          scaler, processed_input,
          ml_model, disk, ml_return,
          adjust_args, adjust_return,
          passes, pass_heap, caller_pool, call_log,
          inventory, prediction_result, manual_allocations

\* the state of an allocation pass
allocator_vars == <<call, disasters, pool_initial, heap, available_resources,
                    remaining_resources, disaster_needs, total_needs, allocations, result>>

\* the state of the preprocessor and of the dashboard's scorer
preprocessor_vars == <<df, severity_labels, prediction, label_encoders, input_data, df_encoded,
                       scaler, processed_input>>

\* a DisasterSeverityModel, the model file and what the last call gave
model_vars == <<ml_model, disk, ml_return>>

\* the arguments of a call of a pure function, and what it returned
call_vars == <<adjust_args, adjust_return>>

\* the passes in progress on one ResourceAllocator, the dict objects they
\* work on, the pool as the caller filled it, and a call the caller noted
passes_vars == <<passes, pass_heap, caller_pool, call_log>>

\* st.session_state of one dashboard session
session_vars == <<inventory, prediction_result, manual_allocations>>

\* what the steps of the allocator, and of the preprocessor, leave alone
outside_allocator == <<preprocessor_vars, model_vars, call_vars, passes_vars, session_vars>>

outside_preprocessor == <<allocator_vars, model_vars, call_vars, passes_vars, session_vars>>

vars == <<pc, allocator_vars, preprocessor_vars, model_vars, call_vars, passes_vars,
          session_vars>>

----------------------------------------------------------------------------
(* Bounds of the explored inputs *)

MaxDisasters == 2
MaxPeople == 2
MaxPool == 2

----------------------------------------------------------------------------
(* Generic helpers *)

\* None, and the empty dict
Null == <<>>

\* no object
NoRef == 0

Max(a, b) == IF a >= b THEN a ELSE b

Min(a, b) == IF a <= b THEN a ELSE b

\* dict.get(key, default)
Get(d, key, default) == IF key \in DOMAIN d THEN d[key] ELSE default

\* Python int() of the quotient num/den (den > 0): truncation toward zero
IntTrunc(num, den) == IF num >= 0 THEN num \div den ELSE -((-num) \div den)

RECURSIVE SumSeq(_)
SumSeq(s) == IF s = <<>> THEN 0 ELSE Head(s) + SumSeq(Tail(s))

\* a[0] in a[1], on strings held as sequences of one-character strings
IsSubstring(a, b) ==
    \E k \in 0..(Len(b) - Len(a)) : \A j \in 1..Len(a) : b[k + j] = a[j]

UpperToLower == [c \in {"C", "D", "F", "L", "O", "T"} |->
                    CASE c = "C" -> "c" [] c = "D" -> "d" [] c = "F" -> "f"
                      [] c = "L" -> "l" [] c = "O" -> "o" [] c = "T" -> "t"]

\* str.lower()
Lower(s) == [j \in 1..Len(s) |->
                IF s[j] \in DOMAIN UpperToLower THEN UpperToLower[s[j]] ELSE s[j]]

----------------------------------------------------------------------------
(* ResourceAllocator.__init__ *)

\* the weights of High and Low exchanged
severity_weights_Reversed == [High |-> 2, Medium |-> 3, Low |-> 5]

severity_weights == [High |-> 5, Medium |-> 3, Low |-> 2]   \* tenths

resource_types == <<"Food Kits", "Water Packs", "Medicine Kits", "Shelter Units">>

Kinds == {resource_types[j] : j \in 1..Len(resource_types)}

Severities == {"High", "Medium", "Low"}

flood == <<"f", "l", "o", "o", "d">>
earthquake == <<"e", "a", "r", "t", "h", "q", "u", "a", "k", "e">>
cyclone == <<"c", "y", "c", "l", "o", "n", "e">>
drought == <<"d", "r", "o", "u", "g", "h", "t">>
landslide == <<"l", "a", "n", "d", "s", "l", "i", "d", "e">>
wildfire == <<"w", "i", "l", "d", "f", "i", "r", "e">>

\* factors in tenths; the pairs of each entry are in the dict's insertion order
disaster_adjustments == <<
    [key |-> flood,      factors |-> << <<"Water Packs", 12>>, <<"Shelter Units", 13>>, <<"Medicine Kits", 11>> >>],
    [key |-> earthquake, factors |-> << <<"Shelter Units", 15>>, <<"Medicine Kits", 13>>, <<"Food Kits", 11>> >>],
    [key |-> cyclone,    factors |-> << <<"Shelter Units", 14>>, <<"Water Packs", 12>>, <<"Food Kits", 11>> >>],
    [key |-> drought,    factors |-> << <<"Water Packs", 16>>, <<"Food Kits", 13>>, <<"Medicine Kits", 8>> >>],
    [key |-> landslide,  factors |-> << <<"Medicine Kits", 14>>, <<"Shelter Units", 12>>, <<"Food Kits", 11>> >>],
    [key |-> wildfire,   factors |-> << <<"Medicine Kits", 13>>, <<"Water Packs", 12>>, <<"Shelter Units", 11>> >>] >>

----------------------------------------------------------------------------
(* calculate_base_need *)

\* hundredths of a unit per person
base_per_person == [r \in Kinds |->
    CASE r = "Food Kits" -> 80
      [] r = "Water Packs" -> 120
      [] r = "Medicine Kits" -> 30
      [] r = "Shelter Units" -> 25]

severity_multipliers == [High |-> 15, Medium |-> 12, Low |-> 10]   \* tenths

calculate_base_need(people_affected, severity) ==
    [r \in Kinds |->
        Max(1, IntTrunc(people_affected * base_per_person[r] * severity_multipliers[severity], 1000))]

(* adjust_for_disaster_type *)

\* the factors of the last matching entry of the table
MatchAdjustments_LastHit(disaster_type) ==
    LET t == Lower(disaster_type)
        hits == {e \in 1..Len(disaster_adjustments) :
                    \/ IsSubstring(disaster_adjustments[e].key, t)
                    \/ IsSubstring(t, disaster_adjustments[e].key)}
    IN  IF hits = {} THEN <<>>
        ELSE disaster_adjustments[CHOOSE e \in hits : \A f \in hits : e >= f].factors

\* the factors of the first table entry whose key contains, or is contained
\* in, the lower-cased type; no factors when none matches
MatchAdjustments(disaster_type) ==
    LET t == Lower(disaster_type)
        hits == {e \in 1..Len(disaster_adjustments) :
                    \/ IsSubstring(disaster_adjustments[e].key, t)
                    \/ IsSubstring(t, disaster_adjustments[e].key)}
    IN  IF hits = {} THEN <<>>
        ELSE disaster_adjustments[CHOOSE e \in hits : \A f \in hits : e <= f].factors

RECURSIVE ApplyAdjustments(_, _)
ApplyAdjustments(needs, factors) ==
    IF factors = <<>> THEN needs
    ELSE LET r == Head(factors)[1]
             f == Head(factors)[2]
         IN  ApplyAdjustments(
                 IF r \in DOMAIN needs
                 THEN [needs EXCEPT ![r] = IntTrunc(needs[r] * f, 10)]
                 ELSE needs,
                 Tail(factors))

adjust_for_disaster_type(base_needs, disaster_type) ==
    ApplyAdjustments(base_needs, MatchAdjustments(disaster_type))

----------------------------------------------------------------------------
(* _calculate_priority_score *)

severity_scores == [High |-> 3, Medium |-> 2, Low |-> 1]

\* np.log10(n) in thousandths, n = 1..16 (distinct n have distinct entries)
Log10Milli == <<0, 301, 477, 602, 698, 778, 845, 903, 954, 1000, 1041, 1079, 1113, 1146, 1176, 1204>>

\* a score that ignores the number of people
_calculate_priority_score_SeverityOnly(disaster) ==
    severity_scores[disaster.severity] * 100 * 1000

\* the score in thousandths
_calculate_priority_score(disaster) ==
    LET severity_score == severity_scores[disaster.severity]
        normalized_people == Log10Milli[Max(1, disaster.people_affected)]
    IN  severity_score * 100 * 1000 + normalized_people

(* list.sort(key=priority_score, reverse=True): stable, descending *)

\* an unstable sort: a later disaster overtakes the equal-scored ones before it
RECURSIVE InsertDesc_Unstable(_, _)
InsertDesc_Unstable(sorted, x) ==
    IF sorted = <<>> THEN <<x>>
    ELSE IF Head(sorted).priority_score > x.priority_score
         THEN <<Head(sorted)>> \o InsertDesc_Unstable(Tail(sorted), x)
         ELSE <<x>> \o sorted

RECURSIVE InsertDesc(_, _)
InsertDesc(sorted, x) ==
    IF sorted = <<>> THEN <<x>>
    ELSE IF Head(sorted).priority_score >= x.priority_score
         THEN <<Head(sorted)>> \o InsertDesc(Tail(sorted), x)
         ELSE <<x>> \o sorted

RECURSIVE SortByPriority(_)
SortByPriority(s) ==
    IF s = <<>> THEN <<>>
    ELSE InsertDesc(SortByPriority(SubSeq(s, 1, Len(s) - 1)), s[Len(s)])

----------------------------------------------------------------------------
(* _calculate_fulfillment_rate: the quotient is kept as numerator and      *)
(* denominator; 1.0 is 1/1                                                 *)

SumOver(d) == SumSeq([j \in 1..Len(resource_types) |-> d[resource_types[j]]])

_calculate_fulfillment_rate(needs, allocated) ==
    LET total_need == SumOver(needs)
        total_allocated == SumOver(allocated)
    IN  IF total_need = 0 THEN [num |-> 1, den |-> 1]
        ELSE [num |-> total_allocated, den |-> total_need]

(* _allocate_to_single_disaster *)

\* the clamp taken with max instead of min
AllocateKind_MaxClamp(needed, available, total, severity) ==
    IF needed <= available
    THEN needed
    ELSE IF total > 0
         THEN LET fair_allocation == IntTrunc(available * needed * severity_weights[severity], total * 10)
              IN  Max(Max(fair_allocation, available), needed)
         ELSE 0

\* the fast path hands out all that is available
AllocateKind_AllAvailable(needed, available, total, severity) ==
    IF needed <= available
    THEN available
    ELSE IF total > 0
         THEN LET fair_allocation == IntTrunc(available * needed * severity_weights[severity], total * 10)
              IN  Min(Min(fair_allocation, available), needed)
         ELSE 0

\* the fast path taken only when the need is strictly below the supply
AllocateKind_StrictFastPath(needed, available, total, severity) ==
    IF needed < available
    THEN needed
    ELSE IF total > 0
         THEN LET fair_allocation == IntTrunc(available * needed * severity_weights[severity], total * 10)
              IN  Min(Min(fair_allocation, available), needed)
         ELSE 0

\* the fair share never below one unit
AllocateKind_MinimumOne(needed, available, total, severity) ==
    IF needed <= available
    THEN needed
    ELSE IF total > 0
         THEN LET fair_allocation == IntTrunc(available * needed * severity_weights[severity], total * 10)
              IN  Max(1, Min(Min(fair_allocation, available), needed))
         ELSE 0

AllocateKind(needed, available, total, severity) ==
    IF needed <= available
    THEN needed
    ELSE IF total > 0
         THEN LET severity_weight == severity_weights[severity]
                  \* int(available * (needed / total) * severity_weight)
                  fair_allocation == IntTrunc(available * needed * severity_weight, total * 10)
              IN  Min(Min(fair_allocation, available), needed)
         ELSE 0

_allocate_to_single_disaster(disaster_info, available, totals) ==
    LET needs == disaster_info.needs
        allocated == [r \in Kinds |->
                         AllocateKind(needs[r], Get(available, r, 0), totals[r],
                                      disaster_info.severity)]
        unmet_needs == [r \in Kinds |->
                         IF needs[r] <= Get(available, r, 0) THEN 0 ELSE needs[r] - allocated[r]]
    IN  [disaster_index |-> disaster_info.index,
         severity |-> disaster_info.severity,
         people_affected |-> disaster_info.people_affected,
         disaster_type |-> disaster_info.disaster_type,
         location |-> disaster_info.location,
         needed |-> needs,
         allocated |-> allocated,
         unmet_needs |-> unmet_needs,
         fulfillment_rate |-> _calculate_fulfillment_rate(needs, allocated)]

(* _prepare_allocation_summary *)

\* sum of two quotients
RatAdd(a, b) == [num |-> a.num * b.den + b.num * a.den, den |-> a.den * b.den]

RECURSIVE RatSum(_)
RatSum(rates) == IF rates = <<>> THEN [num |-> 0, den |-> 1]
                 ELSE RatAdd(Head(rates), RatSum(Tail(rates)))

\* np.mean(rates) * 100
MeanPercent(rates) == [num |-> RatSum(rates).num * 100, den |-> RatSum(rates).den * Len(rates)]

\* a total that counts the last record only
TotalOf_LastOnly(records, field, r) ==
    IF records = <<>> THEN 0 ELSE records[Len(records)][field][r]

RECURSIVE TotalOf(_, _, _)
TotalOf(records, field, r) ==
    IF records = <<>> THEN 0
    ELSE Head(records)[field][r] + TotalOf(Tail(records), field, r)

RECURSIVE RatesOf(_, _)
RatesOf(records, severity) ==
    IF records = <<>> THEN <<>>
    ELSE (IF Head(records).severity = severity
          THEN <<Head(records).fulfillment_rate>> ELSE <<>>)
         \o RatesOf(Tail(records), severity)

\* the quotient left as a fraction of 1
utilization_rates_Ratio(total_allocated, available) ==
    [r \in Kinds |->
        IF Get(available, r, 0) > 0
        THEN [num |-> total_allocated[r], den |-> available[r]]
        ELSE [num |-> 0, den |-> 1]]

\* (total_allocated[resource] / available) * 100 if available > 0 else 0
utilization_rates(total_allocated, available) ==
    [r \in Kinds |->
        IF Get(available, r, 0) > 0
        THEN [num |-> total_allocated[r] * 100, den |-> available[r]]
        ELSE [num |-> 0, den |-> 1]]

_prepare_allocation_summary(ds, allocs, available, remaining_ref, totals) ==
    LET total_allocated == [r \in Kinds |-> TotalOf(allocs, "allocated", r)]
        avg_fulfillment_by_severity == [s \in Severities |->
            IF RatesOf(allocs, s) # <<>>
            THEN MeanPercent(RatesOf(allocs, s))
            ELSE [num |-> 0, den |-> 1]]
    IN  [allocations |-> allocs,
         summary_stats |->
            [total_disasters |-> Len(ds),
             total_people_affected |-> SumSeq([j \in 1..Len(ds) |-> ds[j].people_affected]),
             resource_utilization |-> utilization_rates(total_allocated, available),
             avg_fulfillment_by_severity |-> avg_fulfillment_by_severity,
             total_allocated |-> total_allocated,
             remaining_resources |-> remaining_ref,
             total_needs |-> totals]]

----------------------------------------------------------------------------
(* The inputs of a call *)

Tsunami == <<"T", "s", "u", "n", "a", "m", "i">>
Drought == <<"D", "r", "o", "u", "g", "h", "t">>

DisasterTypes == {Drought, Tsunami}

\* the disasters of one pass are of one type
DisasterLists ==
    UNION {{[i \in 1..n |-> [severity |-> f[i][1],
                             people_affected |-> f[i][2],
                             disaster_type |-> t]] :
               f \in [1..n -> Severities \X (0..MaxPeople)], t \in DisasterTypes} :
           n \in 0..MaxDisasters}

\* the quantity of one kind varies, from an invalid -1 up, or the dict has no
\* item for that kind, while the other kinds hold MaxPool; and the pool with
\* every quantity invalid
Pools == {[r \in Kinds |-> IF r = k THEN q ELSE MaxPool] : k \in Kinds, q \in (-1)..MaxPool}
         \cup {[r \in Kinds \ {k} |-> MaxPool] : k \in Kinds}
         \cup {[r \in Kinds |-> -1]}

\* the two dict objects of a pass: the caller's pool and the allocator's copy
Refs == 1..2

\* no copy: the same object is handed back
dict_copy_Alias(h, src) == <<h, src>>

\* dict.copy(): a new object with the same items; gives <<heap, new reference>>
dict_copy(h, src) ==
    LET new == CHOOSE o \in DOMAIN h : h[o] = Null
    IN  <<[h EXCEPT ![new] = h[src]], new>>

\* no pass running on the shared allocator
NoPasses ==
    /\ passes = Null
    /\ pass_heap = Null
    /\ caller_pool = Null
    /\ call_log = Null

\* a session in which no page was shown: no 'inventory' and no
\* 'prediction_result' key; the missing list of manual allocations is the
\* empty list it is created as
NoSession ==
    /\ inventory = Null
    /\ prediction_result = Null
    /\ manual_allocations = Null

\* no function called
NoCall ==
    /\ adjust_args = Null
    /\ adjust_return = Null

\* no model file, a model just constructed
NoModel ==
    /\ ml_model = [model |-> [fitted_on |-> Null], is_trained |-> FALSE,
                   feature_names |-> Null, feature_importance |-> Null]
    /\ disk = Null
    /\ ml_return = Null

\* no frame labelled, scored or encoded
NoPreprocessing ==
    /\ severity_labels = Null
    /\ prediction = Null
    /\ label_encoders = Null
    /\ input_data = Null
    /\ df_encoded = Null
    /\ scaler = Null
    /\ processed_input = Null

Init ==
    /\ pc = "idle"
    /\ call = "none"
    /\ disasters \in DisasterLists
    /\ pool_initial \in Pools
    /\ heap = [o \in Refs |-> IF o = 1 THEN pool_initial ELSE Null]
    /\ available_resources = 1
    /\ remaining_resources = NoRef
    /\ disaster_needs = <<>>
    /\ total_needs = [r \in Kinds |-> 0]
    /\ allocations = <<>>
    /\ result = Null
    /\ df = <<>>
    /\ NoPreprocessing
    /\ NoPasses
    /\ NoSession
    /\ NoCall
    /\ NoModel

----------------------------------------------------------------------------
(* allocate_resources, steps 1 and 2 and the copy of the pool *)

DisasterInfo(ds, location, i) ==
    [index |-> i - 1,
     severity |-> ds[i].severity,
     people_affected |-> ds[i].people_affected,
     disaster_type |-> ds[i].disaster_type,
     location |-> location,
     needs |-> adjust_for_disaster_type(
                   calculate_base_need(ds[i].people_affected, ds[i].severity),
                   ds[i].disaster_type),
     priority_score |-> _calculate_priority_score(ds[i])]

Begin(name, location) ==
    LET infos == [i \in 1..Len(disasters) |-> DisasterInfo(disasters, location, i)]
        copied == dict_copy(heap, available_resources)
    IN  /\ pc = "idle"
        /\ call' = name
        /\ total_needs' = [r \in Kinds |-> TotalOf(infos, "needs", r)]
        /\ disaster_needs' = SortByPriority(infos)
        /\ allocations' = <<>>
        /\ heap' = copied[1]
        /\ remaining_resources' = copied[2]
        /\ pc' = "allocating"
        /\ UNCHANGED <<disasters, pool_initial, available_resources, result>>
        /\ UNCHANGED outside_allocator

allocate_resources == Begin("allocate_resources", "Unknown")

\* the simplified interface: a list of one disaster at 'Single Location'
allocate_single_disaster ==
    /\ Len(disasters) = 1
    /\ Begin("allocate_single_disaster", "Single Location")

(* step 3: one iteration of the loop over the sorted disasters *)

\* for resource, amount in allocated.items(): remaining[resource] -= amount,
\* over the kinds still to do; the subscript raises KeyError at the first
\* kind the dict has no item for, the kinds before it already decremented
\* each amount taken off twice
RECURSIVE UpdateRemaining_Twice(_, _, _)
UpdateRemaining_Twice(remaining, allocated, kinds) ==
    IF kinds = <<>> THEN [dict |-> remaining, raised |-> FALSE]
    ELSE IF Head(kinds) \notin DOMAIN remaining
         THEN [dict |-> remaining, raised |-> TRUE]
         ELSE UpdateRemaining_Twice(
                  [remaining EXCEPT ![Head(kinds)] = @ - 2 * allocated[Head(kinds)]],
                  allocated, Tail(kinds))

RECURSIVE UpdateRemaining(_, _, _)
UpdateRemaining(remaining, allocated, kinds) ==
    IF kinds = <<>> THEN [dict |-> remaining, raised |-> FALSE]
    ELSE IF Head(kinds) \notin DOMAIN remaining
         THEN [dict |-> remaining, raised |-> TRUE]
         ELSE UpdateRemaining(
                  [remaining EXCEPT ![Head(kinds)] = @ - allocated[Head(kinds)]],
                  allocated, Tail(kinds))

AllocateNext ==
    /\ pc = "allocating"
    /\ Len(allocations) < Len(disaster_needs)
    /\ LET disaster_info == disaster_needs[Len(allocations) + 1]
           allocation == _allocate_to_single_disaster(
                             disaster_info, heap[remaining_resources], total_needs)
           updated == UpdateRemaining(heap[remaining_resources], allocation.allocated,
                                      resource_types)
       IN  /\ allocations' = Append(allocations, allocation)
           /\ heap' = [heap EXCEPT ![remaining_resources] = updated.dict]
           /\ pc' = IF updated.raised THEN "KeyError" ELSE pc
    /\ UNCHANGED <<call, disasters, pool_initial, available_resources, remaining_resources,
                   disaster_needs, total_needs, result>>
    /\ UNCHANGED outside_allocator

(* step 4 and the return *)
Return ==
    /\ pc = "allocating"
    /\ Len(allocations) = Len(disaster_needs)
    /\ LET summary == _prepare_allocation_summary(
                          disasters, allocations, heap[available_resources],
                          remaining_resources, total_needs)
       IN  result' = IF call = "allocate_single_disaster"
                     THEN (IF summary.allocations # <<>> THEN summary.allocations[1] ELSE Null)
                     ELSE summary
    /\ pc' = "done"
    /\ UNCHANGED <<call, disasters, pool_initial, heap, available_resources, remaining_resources,
                   disaster_needs, total_needs, allocations>>
    /\ UNCHANGED outside_allocator

Next == allocate_resources \/ allocate_single_disaster \/ AllocateNext \/ Return

Spec == Init /\ [][Next]_vars

----------------------------------------------------------------------------
(* Properties of a pass *)

\* a pool of non-negative quantities
ValidPool == \A r \in DOMAIN pool_initial : pool_initial[r] >= 0

\* a pool with an item for each of the four kinds
FullPool == DOMAIN pool_initial = Kinds

AllocatedTotal(r) == TotalOf(allocations, "allocated", r)

\* a.num / a.den >= b.num / b.den (positive denominators)
RateGE(a, b) == a.num * b.den >= b.num * a.den

\* the step that processes one disaster and appends its record
RecordAdded == Len(allocations') = Len(allocations) + 1

NewRecord == allocations'[Len(allocations')]

\* C1 Conservation (P1): with a pool of non-negative quantities, at every
\* point of a pass and for every resource kind, the allocations of the
\* records produced so far sum to at most the initial pool quantity.
C1_Conservation ==
    ValidPool => \A r \in Kinds : AllocatedTotal(r) <= Get(pool_initial, r, 0)

\* a finished pass over two disasters that used up a kind of the pool and
\* left a need for that kind unmet
C1_Witness ==
    /\ pc = "done"
    /\ ValidPool
    /\ Len(allocations) = 2
    /\ \E r \in DOMAIN pool_initial :
                        /\ pool_initial[r] > 0
                        /\ AllocatedTotal(r) = pool_initial[r]
                        /\ allocations[2].unmet_needs[r] > 0

\* C2 Priority ordering (P4): a finished pass over a High and a Low disaster
\* with identical people_affected and a pool that cannot satisfy both gives
\* the High disaster a fulfillment rate at least that of the Low disaster.
C2_PriorityOrdering ==
    (/\ pc = "done"
     /\ ValidPool
     /\ Len(allocations) = 2
     /\ disasters[1].people_affected = disasters[2].people_affected
     /\ \E r \in Kinds : total_needs[r] > Get(pool_initial, r, 0))
    => \A h, l \in 1..2 :
          (allocations[h].severity = "High" /\ allocations[l].severity = "Low")
          => RateGE(allocations[h].fulfillment_rate, allocations[l].fulfillment_rate)

\* C3 No over-allocation (P2): in every allocation record and for every
\* kind, allocated <= needed, and unmet_needs = needed - allocated >= 0.
C3_NoOverAllocation ==
    \A k \in 1..Len(allocations) : \A r \in Kinds :
        /\ allocations[k].allocated[r] <= allocations[k].needed[r]
        /\ allocations[k].unmet_needs[r] = allocations[k].needed[r] - allocations[k].allocated[r]
        /\ allocations[k].unmet_needs[r] >= 0

\* a record with a partial allocation: something allocated, something unmet
C3_Witness ==
    ValidPool /\ \E k \in 1..Len(allocations) : \E r \in Kinds :
        /\ allocations[k].allocated[r] > 0
        /\ allocations[k].unmet_needs[r] > 0

\* C4 Fast path (P3): when a disaster is processed and its need for a kind
\* is at most the remaining quantity of that kind (equality included), the
\* record allocates exactly the need and leaves nothing unmet.
C4_FastPath ==
    [][RecordAdded =>
          \A r \in Kinds :
              NewRecord.needed[r] <= Get(heap[remaining_resources], r, 0)
              => /\ NewRecord.allocated[r] = NewRecord.needed[r]
                 /\ NewRecord.unmet_needs[r] = 0]_vars

\* a single High disaster whose need for a kind equals the supply exactly
\* and is served in full (the fair share would be less than the need)
C4_Witness ==
    /\ ValidPool
    /\ Len(allocations) = 1
    /\ Len(disaster_needs) = 1
    /\ allocations[1].severity = "High"
    /\ \E r \in DOMAIN pool_initial :
                        /\ allocations[1].needed[r] = pool_initial[r]
                        /\ allocations[1].needed[r] >= 2
                        /\ allocations[1].allocated[r] = allocations[1].needed[r]

----------------------------------------------------------------------------
(* Processing order *)

SeverityRank(severity) == CASE severity = "High" -> 3 [] severity = "Medium" -> 2 [] severity = "Low" -> 1

\* C5 (as stated) Processing order: the records (of a pass over a pool of
\* non-negative quantities) are in descending severity; within one severity
\* a disaster with larger people_affected comes first; otherwise equal
\* disasters keep their input order.
C5_OrderAsStated ==
    \A i, j \in 1..Len(allocations) :
        (ValidPool /\ i < j) =>
            LET a == allocations[i]
                b == allocations[j]
            IN  \/ SeverityRank(a.severity) > SeverityRank(b.severity)
                \/ /\ a.severity = b.severity
                   /\ a.people_affected > b.people_affected
                \/ /\ a.severity = b.severity
                   /\ a.people_affected = b.people_affected
                   /\ a.disaster_index < b.disaster_index

\* C5 (amended) Processing order: the records are in descending severity;
\* within one severity a disaster with larger max(1, people_affected) comes
\* first; disasters of one severity with equal max(1, people_affected), such
\* as 0 and 1, keep their input order.
C5_ProcessingOrder ==
    \A i, j \in 1..Len(allocations) :
        i < j =>
            LET a == allocations[i]
                b == allocations[j]
            IN  \/ SeverityRank(a.severity) > SeverityRank(b.severity)
                \/ /\ a.severity = b.severity
                   /\ Max(1, a.people_affected) > Max(1, b.people_affected)
                \/ /\ a.severity = b.severity
                   /\ Max(1, a.people_affected) = Max(1, b.people_affected)
                   /\ a.disaster_index < b.disaster_index

\* a finished pass that reordered its input by severity, and one that kept
\* two equal-scored disasters with 0 and 1 people in input order
C5_Witness ==
    /\ pc = "done"
    /\ ValidPool
    /\ Len(allocations) = 2
    /\ allocations[1].disaster_index = 1
    /\ allocations[1].severity = "Medium"
    /\ allocations[2].severity = "Low"
    /\ allocations[2].people_affected > allocations[1].people_affected

C5_TieWitness ==
    /\ pc = "done"
    /\ ValidPool
    /\ Len(allocations) = 2
    /\ allocations[1].severity = allocations[2].severity
    /\ allocations[1].people_affected = 0
    /\ allocations[2].people_affected = 1
    /\ allocations[1].disaster_index = 0

----------------------------------------------------------------------------
(* Need estimation *)

\* the tenths factor the adjustment table gives a kind for a type, 10 (x1.0)
\* when the table has none
TypeFactor(disaster_type, r) ==
    LET factors == MatchAdjustments(disaster_type)
        at == {j \in 1..Len(factors) : factors[j][1] = r}
    IN  IF at = {} THEN 10 ELSE factors[CHOOSE j \in at : TRUE][2]

\* max(1, floor(people x base_rate x severity_multiplier x type_adjustment))
NeedFormula(people_affected, severity, disaster_type, r) ==
    Max(1, (people_affected * base_per_person[r] * severity_multipliers[severity]
               * TypeFactor(disaster_type, r)) \div 10000)

\* C6 Need formula: the need computed for every disaster and kind equals
\* max(1, floor(people_affected x base_rate x severity_multiplier x
\* type_adjustment)), one floor and the max applied to the final product
\* (stated for the passes over a pool of non-negative quantities).
C6_NeedFormula ==
    \A k \in 1..Len(disaster_needs) : \A r \in Kinds :
        ValidPool =>
        disaster_needs[k].needs[r] =
            NeedFormula(disaster_needs[k].people_affected, disaster_needs[k].severity,
                        disaster_needs[k].disaster_type, r)

\* C7 Minimum need: every disaster with people_affected > 0 needs at least
\* one unit of every kind (stated for the passes over a pool of non-negative
\* quantities).
C7_MinimumNeed ==
    \A k \in 1..Len(disaster_needs) :
        (ValidPool /\ disaster_needs[k].people_affected > 0)
        => \A r \in Kinds : disaster_needs[k].needs[r] >= 1

----------------------------------------------------------------------------
(* Fair share *)

\* floor of the quotient num/den (den > 0)
Floor(num, den) == num \div den

Clamp(x, lo, hi) == IF x < lo THEN lo ELSE IF x > hi THEN hi ELSE x

\* C8 Fair share: when a disaster is processed and its need for a kind
\* exceeds the remaining quantity, the record allocates
\* floor(remaining x need / total_need x severity_weight) clamped to
\* [0, min(remaining, need)], a quantity inside that interval.
C8_FairShare ==
    [][RecordAdded =>
          \A r \in Kinds :
              LET remaining == Get(heap[remaining_resources], r, 0)
                  need == NewRecord.needed[r]
                  weight == severity_weights[NewRecord.severity]
              IN  need > remaining
                  => /\ total_needs[r] > 0
                     /\ NewRecord.allocated[r] =
                            Clamp(Floor(remaining * need * weight, total_needs[r] * 10),
                                  0, Min(remaining, need))
                     /\ NewRecord.allocated[r] >= 0
                     /\ NewRecord.allocated[r] <= Min(remaining, need)]_vars

\* the same, for the passes over a pool of non-negative quantities
C8_FairShareOfValidPool ==
    [][(RecordAdded /\ ValidPool) =>
          \A r \in Kinds :
              LET remaining == Get(heap[remaining_resources], r, 0)
                  need == NewRecord.needed[r]
                  weight == severity_weights[NewRecord.severity]
              IN  need > remaining
                  => /\ total_needs[r] > 0
                     /\ NewRecord.allocated[r] =
                            Clamp(Floor(remaining * need * weight, total_needs[r] * 10),
                                  0, Min(remaining, need))
                     /\ NewRecord.allocated[r] >= 0
                     /\ NewRecord.allocated[r] <= Min(remaining, need)]_vars

----------------------------------------------------------------------------
(* The pool *)

\* C9 Invalid pool: a call whose pool holds a negative quantity is rejected
\* before any allocation math runs: it produces no allocation record and
\* returns no result.
C9_InvalidPoolRejected ==
    (\E r \in DOMAIN pool_initial : pool_initial[r] < 0)
    => /\ allocations = <<>>
       /\ result = Null

\* C10 Caller's pool is untouched: during and after a call the caller's pool
\* object holds the quantities it held before the call; the object that is
\* decremented and returned as remaining_resources is another object, which
\* holds the initial quantities less the allocations.
C10_CallerPoolUntouched ==
    /\ heap[available_resources] = pool_initial
    /\ pc # "idle" => remaining_resources # available_resources
    /\ pc \in {"allocating", "done"} =>
          heap[remaining_resources] =
              [r \in DOMAIN pool_initial |-> pool_initial[r] - AllocatedTotal(r)]
    /\ (pc = "done" /\ call = "allocate_resources") =>
          result.summary_stats.remaining_resources = remaining_resources

\* a returned pass that allocated something: the returned remaining pool
\* differs from the caller's
C10_Witness ==
    /\ pc = "done"
    /\ ValidPool
    /\ call = "allocate_resources"
    /\ \E r \in Kinds : AllocatedTotal(r) > 0
    /\ heap[result.summary_stats.remaining_resources] # heap[available_resources]

----------------------------------------------------------------------------
(* Failures of a pass *)

\* C11 No failure on scarce or degenerate input: a call with a pool of
\* non-negative quantities, however small, never raises, and the result it
\* returns holds one allocation record per input disaster.
C11_NeverRaises ==
    ValidPool =>
        /\ pc # "KeyError"
        /\ (pc = "done" /\ call = "allocate_resources") =>
               Len(result.allocations) = Len(disasters)

\* the same for the pools that have an item for each of the four kinds
C11_NeverRaisesOfFullPool ==
    (ValidPool /\ FullPool) =>
        /\ pc # "KeyError"
        /\ (pc = "done" /\ call = "allocate_resources") =>
               Len(result.allocations) = Len(disasters)

----------------------------------------------------------------------------
(* Empty and sufficient pools *)

\* C12 Empty pool for a kind: when the pool holds 0 of a kind, every record
\* of a disaster that needs that kind allocates 0 of it and leaves the whole
\* need unmet.
C12_EmptyPoolKind ==
    \A r \in DOMAIN pool_initial :
        pool_initial[r] = 0 =>
            \A k \in 1..Len(allocations) :
                allocations[k].needed[r] > 0
                => /\ allocations[k].allocated[r] = 0
                   /\ allocations[k].unmet_needs[r] = allocations[k].needed[r]

\* a finished pass over a High and a Low disaster that both need a kind the
\* pool holds 0 of
C12_Witness ==
    /\ pc = "done"
    /\ Len(allocations) = 2
    /\ allocations[1].severity = "High"
    /\ allocations[2].severity = "Low"
    /\ \E r \in DOMAIN pool_initial :
          /\ pool_initial[r] = 0
          /\ \A k \in 1..2 : /\ allocations[k].needed[r] > 0
                              /\ allocations[k].allocated[r] = 0
                              /\ allocations[k].unmet_needs[r] = allocations[k].needed[r]

\* C13 Sufficient pool: when the initial quantity of a kind is at least the
\* combined need for that kind of all disasters of the pass, every record
\* allocates the full need for that kind.
C13_SufficientPool ==
    \A r \in DOMAIN pool_initial :
        pool_initial[r] >= total_needs[r] =>
            \A k \in 1..Len(allocations) :
                /\ allocations[k].allocated[r] = allocations[k].needed[r]
                /\ allocations[k].unmet_needs[r] = 0

\* a finished pass over two disasters whose combined need for a kind equals
\* the initial quantity, the second one served from what the first one left
C13_Witness ==
    /\ pc = "done"
    /\ Len(allocations) = 2
    /\ \E r \in DOMAIN pool_initial :
          /\ total_needs[r] = pool_initial[r]
          /\ \A k \in 1..2 : /\ allocations[k].needed[r] > 0
                              /\ allocations[k].allocated[r] = allocations[k].needed[r]

----------------------------------------------------------------------------
(* Severity under scarcity *)

----------------------------------------------------------------------------
(* Fulfillment rate *)

FourKinds(d) == d["Food Kits"] + d["Water Packs"] + d["Medicine Kits"] + d["Shelter Units"]

\* the rate of a record is sum(allocated) / sum(needed), 1.0 when the summed
\* need is 0, inside [0, 1], and 1.0 for the one disaster of a pass whose
\* every need is strictly below the pool's quantity
RateAsStated(a) ==
    LET rate == a.fulfillment_rate
    IN  /\ rate.den > 0
        /\ FourKinds(a.needed) # 0 => rate.num * FourKinds(a.needed) = FourKinds(a.allocated) * rate.den
        /\ FourKinds(a.needed) = 0 => rate.num = rate.den
        /\ 0 <= rate.num
        /\ rate.num <= rate.den
        /\ (Len(disasters) = 1 /\ FullPool /\ \A r \in Kinds : a.needed[r] < pool_initial[r])
              => rate.num = rate.den

\* C15 Fulfillment rate: every allocation record's fulfillment_rate equals
\* sum(allocated) / sum(needed), lies in [0, 1], is 1.0 when the summed need
\* is 0, and is exactly 1.0 for a single disaster whose need for every kind
\* is strictly less than the pool's quantity.
C15_FulfillmentRate ==
    \A k \in 1..Len(allocations) : RateAsStated(allocations[k])

\* the same for the passes over a pool of non-negative quantities
C15_FulfillmentRateOfValidPool ==
    ValidPool => \A k \in 1..Len(allocations) : RateAsStated(allocations[k])

----------------------------------------------------------------------------
(* Summary statistics *)

Returned == pc = "done" /\ call = "allocate_resources"

\* the remaining quantity of a kind in the returned summary
RemainingOf(r) == heap[result.summary_stats.remaining_resources][r]

\* C16 (as stated) Utilization: in the summary of a pass (over a pool of
\* non-negative quantities of the four kinds), resource_utilization[kind]
\* equals (pool_initial - remaining) / pool_initial, a ratio between 0 and
\* 1, and is 0 when pool_initial[kind] = 0.
C16_UtilizationRatio ==
    (Returned /\ ValidPool /\ FullPool) =>
        \A r \in Kinds :
            LET u == result.summary_stats.resource_utilization[r]
            IN  /\ pool_initial[r] # 0 =>
                      u.num * pool_initial[r] = (pool_initial[r] - RemainingOf(r)) * u.den
                /\ pool_initial[r] = 0 => u.num = 0
                /\ 0 <= u.num
                /\ u.num <= u.den

\* C16 (amended) Utilization: in the summary of a pass, for a kind with
\* pool_initial[kind] > 0, resource_utilization[kind] is the percentage
\* 100 x (pool_initial - remaining) / pool_initial, between 0 and 100; for
\* a kind whose quantity is 0 or negative, or that the pool has no item for,
\* it is 0.
C16_UtilizationPercent ==
    Returned =>
        \A r \in Kinds :
            LET u == result.summary_stats.resource_utilization[r]
            IN  /\ u.den > 0
                /\ Get(pool_initial, r, 0) > 0 =>
                      /\ u.num * pool_initial[r] = 100 * (pool_initial[r] - RemainingOf(r)) * u.den
                      /\ 0 <= u.num
                      /\ u.num <= 100 * u.den
                /\ Get(pool_initial, r, 0) <= 0 => u.num = 0

\* a returned summary with one kind used up (100) and another kind used in
\* part (strictly between 0 and 100)
C16_Witness ==
    /\ Returned
    /\ ValidPool
    /\ \E r, q \in DOMAIN pool_initial :
          /\ RemainingOf(r) = 0
          /\ result.summary_stats.resource_utilization[r].num
                = 100 * result.summary_stats.resource_utilization[r].den
          /\ RemainingOf(q) > 0
          /\ RemainingOf(q) < pool_initial[q]
          /\ result.summary_stats.resource_utilization[q].num > 0

----------------------------------------------------------------------------
(* Severity labels: DisasterDataPreprocessor.create_severity_labels        *)
(* (src/src/data_preprocessing.py) and predict_severity                    *)
(* (src/dashboard_working.py)                                              *)

\* how far around each threshold the impact numbers are explored
Margin == 1

severity_thresholds ==
    [deaths   |-> [low |-> 10, medium |-> 100],
     affected |-> [low |-> 1000, medium |-> 10000],
     damages  |-> [low |-> 1000000, medium |-> 10000000]]

\* the thresholds taken strictly
RowScore_Strict(row) ==
    LET deaths == Get(row, "deaths", 0)
        affected == Get(row, "people_affected", 0)
        damages == Get(row, "damages", 0)
    IN  (IF deaths > severity_thresholds.deaths.medium THEN 3
         ELSE IF deaths > severity_thresholds.deaths.low THEN 2 ELSE 1)
      + (IF affected > severity_thresholds.affected.medium THEN 3
         ELSE IF affected > severity_thresholds.affected.low THEN 2 ELSE 1)
      + (IF damages > severity_thresholds.damages.medium THEN 3
         ELSE IF damages > severity_thresholds.damages.low THEN 2 ELSE 1)

\* the score of one row of the frame
RowScore(row) ==
    LET deaths == Get(row, "deaths", 0)
        affected == Get(row, "people_affected", 0)
        damages == Get(row, "damages", 0)
    IN  (IF deaths >= severity_thresholds.deaths.medium THEN 3
         ELSE IF deaths >= severity_thresholds.deaths.low THEN 2 ELSE 1)
      + (IF affected >= severity_thresholds.affected.medium THEN 3
         ELSE IF affected >= severity_thresholds.affected.low THEN 2 ELSE 1)
      + (IF damages >= severity_thresholds.damages.medium THEN 3
         ELSE IF damages >= severity_thresholds.damages.low THEN 2 ELSE 1)

\* a label that also looks at the type of the disaster
RowLabel_ByType(row) ==
    LET score == RowScore(row) + (IF row.disaster_type = "earthquake" THEN 1 ELSE 0)
    IN  IF score >= 7 THEN "High" ELSE IF score >= 5 THEN "Medium" ELSE "Low"

\* the label of one row: its score converted
RowLabel(row) ==
    LET score == RowScore(row)
    IN  IF score >= 7 THEN "High" ELSE IF score >= 5 THEN "Medium" ELSE "Low"

high_impact_disasters == {"earthquake", "tsunami", "cyclone"}

\* the dashboard's rule; gives <<label, probabilities in hundredths>>
predict_severity(people_affected, deaths, damages, disaster_type) ==
    LET score == (IF people_affected > 10000 THEN 30
                  ELSE IF people_affected > 1000 THEN 20 ELSE 10)
               + (IF deaths > 100 THEN 40 ELSE IF deaths > 10 THEN 25 ELSE 10)
               + (IF damages > 10000000 THEN 30
                  ELSE IF damages > 1000000 THEN 20 ELSE 10)
               + (IF disaster_type \in high_impact_disasters THEN 5 ELSE 0)
    IN  IF score >= 70 THEN <<"High", [High |-> 85, Medium |-> 12, Low |-> 3]>>
        ELSE IF score >= 50 THEN <<"Medium", [High |-> 15, Medium |-> 75, Low |-> 10]>>
        ELSE <<"Low", [High |-> 5, Medium |-> 25, Low |-> 70]>>

(* The frames and the session of the severity rules *)

Around(t) == (t - Margin)..(t + Margin)

DeathsValues == {0, 5, 150} \cup Around(10) \cup Around(100)

AffectedValues == {0, 500, 20000} \cup Around(1000) \cup Around(10000)

DamagesValues == {0, 500000, 15000000} \cup Around(1000000) \cup Around(10000000)

\* the fields the label does not look at
Contexts ==
    {[year |-> 2018, disaster_type |-> "flood", state |-> "Kerala", district |-> "Idukki"],
     [year |-> 2001, disaster_type |-> "earthquake", state |-> "Gujarat", district |-> "Kutch"]}

Row(c, deaths, affected, damages) ==
    [year |-> c.year, disaster_type |-> c.disaster_type, state |-> c.state,
     district |-> c.district, people_affected |-> affected, deaths |-> deaths,
     damages |-> damages]

\* frames of two rows with the same impact numbers
SeverityFrames ==
    {<<Row(c1, d, a, m), Row(c2, d, a, m)>> :
        c1 \in Contexts, c2 \in Contexts,
        d \in DeathsValues, a \in AffectedValues, m \in DamagesValues}

\* no allocation pass
NoAllocation ==
    /\ call = "none"
    /\ disasters = <<>>
    /\ pool_initial = Null
    /\ heap = [o \in Refs |-> Null]
    /\ available_resources = NoRef
    /\ remaining_resources = NoRef
    /\ disaster_needs = <<>>
    /\ total_needs = [r \in Kinds |-> 0]
    /\ allocations = <<>>
    /\ result = Null

InitSeverity ==
    /\ pc = "idle"
    /\ NoAllocation
    /\ df \in SeverityFrames
    /\ NoPreprocessing
    /\ NoPasses
    /\ NoSession
    /\ NoCall
    /\ NoModel

\* df['severity'] = severity_labels, one label per row
create_severity_labels ==
    /\ df # <<>>
    /\ severity_labels' = [i \in 1..Len(df) |-> RowLabel(df[i])]
    /\ UNCHANGED <<pc, df, prediction, label_encoders, input_data, df_encoded, scaler, processed_input>>
    /\ UNCHANGED outside_preprocessor

\* the dashboard's button: the inputs of the form scored by predict_severity
PredictButton ==
    /\ \E i \in 1..Len(df) :
          /\ input_data' = df[i]
          /\ prediction' = predict_severity(df[i].people_affected, df[i].deaths,
                                            df[i].damages, df[i].disaster_type)
    /\ UNCHANGED <<pc, df, severity_labels, label_encoders, df_encoded, scaler, processed_input>>
    /\ UNCHANGED outside_preprocessor

NextSeverity == create_severity_labels \/ PredictButton

SpecSeverity == InitSeverity /\ [][NextSeverity]_vars

\* the frame has been labelled
Labelled == severity_labels # Null

\* the sub-score of one impact number against its two thresholds
SubScore(x, low, medium) == IF x >= medium THEN 3 ELSE IF x >= low THEN 2 ELSE 1

\* C17 Severity labelling rule: for every row of a labelled frame, with
\* total = sub-score(deaths; 10, 100) + sub-score(people_affected; 1000,
\* 10000) + sub-score(damages; 1,000,000, 10,000,000), each sub-score 3 at
\* or above the upper threshold, 2 at or above the lower one and 1 below,
\* the total lies in 3..9 and the label is High iff total >= 7, Medium iff
\* total is 5 or 6, Low otherwise; 150/20000/15000000 is High and
\* 5/500/500000 is Low.
C17_LabellingRule ==
    Labelled =>
        \A i \in 1..Len(df) :
            LET total == SubScore(df[i].deaths, 10, 100)
                         + SubScore(df[i].people_affected, 1000, 10000)
                         + SubScore(df[i].damages, 1000000, 10000000)
            IN  /\ total \in 3..9
                /\ severity_labels[i] = "High" <=> total >= 7
                /\ severity_labels[i] = "Medium" <=> total \in {5, 6}
                /\ severity_labels[i] = "Low" <=> total <= 4
                /\ (df[i].deaths = 150 /\ df[i].people_affected = 20000
                        /\ df[i].damages = 15000000) => severity_labels[i] = "High"
                /\ (df[i].deaths = 5 /\ df[i].people_affected = 500
                        /\ df[i].damages = 500000) => severity_labels[i] = "Low"

\* a labelled frame whose numbers sit on the thresholds 100, 1000 and just
\* below 1,000,000: total 3 + 2 + 1 = 6, Medium
C17_Witness ==
    /\ Labelled
    /\ df[1].deaths = 100
    /\ df[1].people_affected = 1000
    /\ df[1].damages = 999999
    /\ severity_labels[1] = "Medium"

\* the two examples of the rule, labelled
C17_ExampleHigh ==
    /\ Labelled
    /\ df[1].deaths = 150 /\ df[1].people_affected = 20000 /\ df[1].damages = 15000000
    /\ severity_labels[1] = "High"

C17_ExampleLow ==
    /\ Labelled
    /\ df[1].deaths = 5 /\ df[1].people_affected = 500 /\ df[1].damages = 500000
    /\ severity_labels[1] = "Low"

\* C18 Label determinism (P5): two rows of a labelled frame with the same
\* deaths, people_affected and damages have the same label, whatever their
\* disaster_type, state (region), year and district (locality); and
\* labelling a labelled frame again leaves every label as it is.
C18_LabelDeterminism ==
    [][/\ Labelled' =>
            \A i, j \in 1..Len(df') :
                (/\ df'[i].deaths = df'[j].deaths
                 /\ df'[i].people_affected = df'[j].people_affected
                 /\ df'[i].damages = df'[j].damages)
                => severity_labels'[i] = severity_labels'[j]
       /\ Labelled => severity_labels' = severity_labels]_vars

\* a labelled frame of two rows that differ in disaster_type, state, year
\* and district, with numbers for which the type would matter to the
\* dashboard's rule
C18_Witness ==
    /\ Labelled
    /\ df[1].disaster_type # df[2].disaster_type
    /\ df[1].state # df[2].state
    /\ df[1].year # df[2].year
    /\ df[1].district # df[2].district
    /\ df[1].deaths = df[2].deaths
    /\ RowScore(df[1]) = 6
    /\ severity_labels[1] = severity_labels[2]

\* C19 One severity rule: the label predict_severity gives the inputs of a
\* record is the label create_severity_labels assigns to that record.
C19_OneSeverityRule ==
    (Labelled /\ prediction # Null) =>
        \A i \in 1..Len(df) : df[i] = input_data => prediction[1] = severity_labels[i]

----------------------------------------------------------------------------
(* Category encoding: DisasterDataPreprocessor.encode_categorical_features *)

\* the rows of the frame the encoders are fitted on
MaxRows == 2

categorical_cols == {"disaster_type", "state", "district"}

\* the category values explored, per column
Categories ==
    [disaster_type |-> {"Unknown", "earthquake", "flood"},
     state |-> {"Kerala", "Unknown"},
     district |-> {"Idukki", "Unknown"}]

\* the strings above in str order (upper case sorts before lower case)
StrOrder == <<"Idukki", "Kerala", "Unknown", "earthquake", "flood">>

CategoryRecords == [disaster_type : Categories.disaster_type,
                    state : Categories.state,
                    district : Categories.district]

TrainingFrames == UNION {[1..n -> CategoryRecords] : n \in 1..MaxRows}

\* LabelEncoder.fit: classes_ holds the distinct values, sorted
Classes(values) == SelectSeq(StrOrder, LAMBDA v : v \in values)

Known(classes) == {classes[k] : k \in 1..Len(classes)}

\* the position of a value in classes_, from 0
IndexOf(classes, v) == (CHOOSE k \in 1..Len(classes) : classes[k] = v) - 1

\* lambda x: x if x in known_values else 'Unknown'
Substitute(known, x) == IF x \in known THEN x ELSE "Unknown"

\* LabelEncoder.transform raises ValueError for a value that is not in
\* classes_
TransformRaises(classes, x) == x \notin Known(classes)

\* the fit=False branch raises on a column of a row
EncodeRaises(encoders, col, x) ==
    /\ col \in categorical_cols
    /\ col \in DOMAIN encoders
    /\ TransformRaises(encoders[col], Substitute(Known(encoders[col]), x))

\* the value of a column of a row after the fit=False branch
EncodeValue(encoders, col, x) ==
    IF col \in categorical_cols /\ col \in DOMAIN encoders
    THEN IndexOf(encoders[col], Substitute(Known(encoders[col]), x))
    ELSE x

InitEncoding ==
    /\ pc = "idle"
    /\ NoAllocation
    /\ df \in TrainingFrames
    /\ NoPreprocessing
    /\ NoPasses
    /\ NoSession
    /\ NoCall
    /\ NoModel

\* encode_categorical_features(df, fit=True), as preprocess_data calls it
FitEncoders ==
    LET cols == {c \in categorical_cols : \A i \in 1..Len(df) : c \in DOMAIN df[i]}
        fitted == [c \in cols |-> Classes({df[i][c] : i \in 1..Len(df)})]
    IN  /\ label_encoders' = fitted
        /\ df_encoded' = [i \in 1..Len(df) |->
                              [c \in DOMAIN df[i] |->
                                  IF c \in cols THEN IndexOf(fitted[c], df[i][c]) ELSE df[i][c]]]
        /\ pc' = "fitted"
        /\ UNCHANGED <<df, severity_labels, prediction, input_data, scaler, processed_input>>
        /\ UNCHANGED outside_preprocessor

\* encode_categorical_features(df_input, fit=False), as
\* preprocess_single_input calls it on a frame of one record
EncodeInput ==
    \E record \in CategoryRecords :
        LET raised == \E c \in DOMAIN record : EncodeRaises(label_encoders, c, record[c])
        IN  /\ input_data' = record
            /\ df_encoded' = IF raised THEN Null
                              ELSE <<[c \in DOMAIN record |->
                                        EncodeValue(label_encoders, c, record[c])]>>
            /\ pc' = IF raised THEN "ValueError" ELSE "encoded"
            /\ UNCHANGED <<df, severity_labels, prediction, label_encoders, scaler, processed_input>>
            /\ UNCHANGED outside_preprocessor

NextEncoding == FitEncoders \/ EncodeInput

SpecEncoding == InitEncoding /\ [][NextEncoding]_vars

\* the record just handed to the fitted encoders has, in some categorical
\* column, a value that was not seen during fit
UnseenIn(col) ==
    /\ col \in DOMAIN label_encoders
    /\ input_data[col] \notin Known(label_encoders[col])

EncodedUnseen ==
    /\ pc \in {"encoded", "ValueError"}
    /\ label_encoders # Null
    /\ \E col \in categorical_cols : UnseenIn(col)

\* C20 Unseen category at encode time: for every fitted state of the
\* encoders and every record with a disaster_type, state or district value
\* that was not seen during fit, encoding does not raise and the value is
\* encoded as the id of the "Unknown" bucket.
C20_UnseenCategory ==
    EncodedUnseen =>
        /\ pc # "ValueError"
        /\ \A col \in categorical_cols :
              UnseenIn(col) =>
                  /\ "Unknown" \in Known(label_encoders[col])
                  /\ df_encoded[1][col] = IndexOf(label_encoders[col], "Unknown")

\* what holds instead: the encoding succeeds, with the id of "Unknown", only
\* when "Unknown" was itself among the values seen during fit for every
\* column with an unseen value; otherwise it raises ValueError
C20_UnseenNeedsUnknownSeen ==
    EncodedUnseen =>
        IF \A col \in categorical_cols :
               UnseenIn(col) => "Unknown" \in Known(label_encoders[col])
        THEN /\ pc = "encoded"
             /\ \A col \in categorical_cols :
                   UnseenIn(col) =>
                       df_encoded[1][col] = IndexOf(label_encoders[col], "Unknown")
        ELSE /\ pc = "ValueError"
             /\ df_encoded = Null

----------------------------------------------------------------------------
(* One record prepared for prediction:                                     *)
(* DisasterDataPreprocessor.preprocess_single_input                        *)

feature_cols == <<"year", "disaster_type", "state", "district",
                  "people_affected", "deaths", "damages">>

numerical_cols == <<"year", "deaths", "people_affected", "damages">>

\* the columns of a list that a frame with the given columns has
AvailableCols(cols, columns) == SelectSeq(cols, LAMBDA c : c \in columns)

\* the frames the preprocessor is fitted on: every column present
FittingFrames ==
    UNION {[1..n -> {Row(c, 5, 500, 5000) : c \in Contexts}] : n \in 1..MaxRows}

\* the records handed in: any subset of the columns
InputRecords ==
    {[c \in columns |-> Row(x, 5, 500, 5000)[c]] :
        columns \in SUBSET {feature_cols[k] : k \in 1..Len(feature_cols)},
        x \in Contexts}

\* StandardScaler.fit on the numerical columns of the frame: the names of
\* the columns and what the mean of each is computed from
ScalerFit(frame) ==
    LET cols == AvailableCols(numerical_cols, DOMAIN frame[1])
    IN  [feature_names_in_ |-> cols,
         n_samples_seen_ |-> Len(frame),
         sum |-> [c \in {cols[k] : k \in 1..Len(cols)} |->
                     SumSeq([i \in 1..Len(frame) |-> frame[i][c]])]]

\* StandardScaler.transform of one value: x - mean as the quotient
\* centered / n, to be divided by the fitted scale_
ScalerTransform(sc, col, x) ==
    [centered |-> x * sc.n_samples_seen_ - sc.sum[col], n |-> sc.n_samples_seen_]

InitSingleInput ==
    /\ pc = "idle"
    /\ NoAllocation
    /\ df \in FittingFrames
    /\ NoPreprocessing
    /\ NoPasses
    /\ NoSession
    /\ NoCall
    /\ NoModel

\* preprocess_data on the frame: labels, encoders and scaler fitted (the
\* split into training and test sets changes nothing of the preprocessor)
preprocess_data ==
    LET fitted == [c \in categorical_cols |-> Classes({df[i][c] : i \in 1..Len(df)})]
    IN  /\ severity_labels' = [i \in 1..Len(df) |-> RowLabel(df[i])]
        /\ label_encoders' = fitted
        /\ scaler' = ScalerFit(df)
        /\ pc' = "fitted"
        /\ UNCHANGED <<df, prediction, input_data, df_encoded, processed_input>>
        /\ UNCHANGED outside_preprocessor

\* the outcome of preprocess_single_input on a record: what is raised, or
\* "returned" and the frame of one row given back
SingleInputOutcome(record) ==
    LET columns == DOMAIN record
        available_cols == AvailableCols(numerical_cols, columns)
        available_features == AvailableCols(feature_cols, columns)
        numeric == {available_cols[k] : k \in 1..Len(available_cols)}
    IN  IF \E c \in columns : EncodeRaises(label_encoders, c, record[c])
        THEN [raised |-> "ValueError", frame |-> Null]
        ELSE IF available_cols # <<>> /\ scaler = Null
        THEN [raised |-> "NotFittedError", frame |-> Null]
        ELSE IF available_cols # <<>> /\ available_cols # scaler.feature_names_in_
        THEN [raised |-> "ValueError", frame |-> Null]
        ELSE [raised |-> "returned",
              frame |-> [columns |-> available_features,
                         row |-> [c \in columns |->
                                    IF c \in numeric
                                    THEN ScalerTransform(scaler, c, record[c])
                                    ELSE EncodeValue(label_encoders, c, record[c])]]]

preprocess_single_input ==
    \E record \in InputRecords :
        /\ input_data' = record
        /\ processed_input' = SingleInputOutcome(record).frame
        /\ pc' = SingleInputOutcome(record).raised
        /\ UNCHANGED <<df, severity_labels, prediction, label_encoders, df_encoded, scaler>>
        /\ UNCHANGED outside_preprocessor

NextSingleInput == preprocess_data \/ preprocess_single_input

SpecSingleInput == InitSingleInput /\ [][NextSingleInput]_vars

FeatureSet == {feature_cols[k] : k \in 1..Len(feature_cols)}

\* a record has just been handed to the fitted preprocessor
SingleInputDone ==
    /\ pc \in {"returned", "ValueError", "NotFittedError", "SchemaError"}
    /\ scaler # Null

\* C21 Missing column: preparing a record that lacks one of the columns
\* year, disaster_type, state, district, people_affected, deaths, damages
\* fails with a SchemaError, and a frame that is returned never has fewer
\* features than the frame the preprocessor was fitted on.
C21_MissingColumn ==
    SingleInputDone =>
        /\ DOMAIN input_data # FeatureSet => pc = "SchemaError"
        /\ pc = "returned" => Len(processed_input.columns) = Len(feature_cols)

\* what holds instead: a record without its categorical columns, or without
\* any numerical column, is returned with fewer features; a record with
\* some but not all numerical columns raises the scaler's ValueError; no
\* SchemaError is ever raised
C21_MissingColumnOutcome ==
    SingleInputDone =>
        LET columns == DOMAIN input_data
            numeric == {c \in columns : c \in {"year", "deaths", "people_affected", "damages"}}
            unseen == \E c \in columns \cap categorical_cols :
                          input_data[c] \notin Known(label_encoders[c])
        IN  /\ pc # "SchemaError"
            /\ (~unseen /\ numeric # {} /\ Cardinality(numeric) < 4) => pc = "ValueError"
            /\ (~unseen /\ Cardinality(numeric) \in {0, 4}) =>
                   /\ pc = "returned"
                   /\ Len(processed_input.columns) = Cardinality(columns)

----------------------------------------------------------------------------
(* DisasterSeverityModel (src/src/ml_model.py)                             *)

\* the most samples of a training set, and the number of query records
MaxSamples == 2

\* X_train: a DataFrame (with columns) or an array, of some samples
TrainingSets == [has_columns : BOOLEAN, samples : 0..MaxSamples]

Queries == 1..MaxSamples

\* the files a model may be loaded from before anything was saved: none, a
\* file that is no model file, a dict with only the 'model' entry
ForeignFiles ==
    {Null, [garbage |-> TRUE], [model |-> [fitted_on |-> [has_columns |-> TRUE, samples |-> 1]]]}

FeatureNames(X_train) ==
    IF X_train.has_columns THEN feature_cols
    ELSE <<"feature_0", "feature_1", "feature_2", "feature_3",
           "feature_4", "feature_5", "feature_6">>

\* RandomForestClassifier.fit raises ValueError on a set of no samples
FitRaises(X_train) == X_train.samples = 0

InitModel ==
    /\ pc = "idle"
    /\ NoAllocation
    /\ df = <<>>
    /\ NoPreprocessing
    /\ NoPasses
    /\ NoSession
    /\ NoCall
    /\ ml_model = [model |-> [fitted_on |-> Null], is_trained |-> FALSE,
                   feature_names |-> Null, feature_importance |-> Null]
    /\ disk \in ForeignFiles
    /\ ml_return = Null

ModelFrame == UNCHANGED <<pc, allocator_vars, preprocessor_vars, call_vars, passes_vars,
                          session_vars>>

train ==
    \E X_train \in TrainingSets :
        /\ IF FitRaises(X_train)
           THEN /\ ml_model' = [ml_model EXCEPT !.feature_names = FeatureNames(X_train)]
                /\ ml_return' = [call |-> "train", raised |-> "ValueError", value |-> Null]
           ELSE /\ ml_model' = [model |-> [fitted_on |-> X_train],
                                is_trained |-> TRUE,
                                feature_names |-> FeatureNames(X_train),
                                feature_importance |-> [names |-> FeatureNames(X_train),
                                                        of |-> X_train]]
                /\ ml_return' = [call |-> "train", raised |-> "no", value |-> Null]
        /\ UNCHANGED disk
        /\ ModelFrame

\* predict and predict_proba: None of an untrained model, else what the
\* estimator gives for X
Predicting(name) ==
    \E X \in Queries :
        /\ ml_return' = [call |-> name, raised |-> "no",
                         value |-> IF ~ml_model.is_trained THEN Null
                                   ELSE [of |-> X, by |-> ml_model.model, kind |-> name]]
        /\ UNCHANGED <<ml_model, disk>>
        /\ ModelFrame

predict == Predicting("predict")

predict_proba == Predicting("predict_proba")

save_model ==
    /\ IF ~ml_model.is_trained
       THEN /\ ml_return' = [call |-> "save_model", raised |-> "no", value |-> FALSE]
            /\ UNCHANGED disk
       ELSE /\ disk' = [model |-> ml_model.model,
                        feature_names |-> ml_model.feature_names,
                        feature_importance |-> ml_model.feature_importance,
                        is_trained |-> ml_model.is_trained]
            /\ ml_return' = [call |-> "save_model", raised |-> "no", value |-> TRUE]
    /\ UNCHANGED ml_model
    /\ ModelFrame

\* the assignments of the try block up to the first one that raises
load_model ==
    /\ IF "model" \notin DOMAIN disk
       THEN /\ ml_return' = [call |-> "load_model", raised |-> "no", value |-> FALSE]
            /\ UNCHANGED ml_model
       ELSE IF "feature_names" \notin DOMAIN disk
       THEN /\ ml_model' = [ml_model EXCEPT !.model = disk.model]
            /\ ml_return' = [call |-> "load_model", raised |-> "no", value |-> FALSE]
       ELSE /\ ml_model' = [model |-> disk.model,
                            feature_names |-> disk.feature_names,
                            feature_importance |-> disk.feature_importance,
                            is_trained |-> disk.is_trained]
            /\ ml_return' = [call |-> "load_model", raised |-> "no", value |-> TRUE]
    /\ UNCHANGED disk
    /\ ModelFrame

NextModel == train \/ predict \/ predict_proba \/ save_model \/ load_model

SpecModel == InitModel /\ [][NextModel]_vars

\* the step is a call of predict or predict_proba on a model for which no
\* train and no load_model has completed successfully
UntrainedPredict ==
    /\ ml_return' # Null
    /\ ml_return'.call \in {"predict", "predict_proba"}
    /\ ~ml_model.is_trained

\* C22 Untrained model: predict or predict_proba called before a train or a
\* successful load_model has completed fails with an UntrainedModelError,
\* and gives no value.
C22_UntrainedModelError ==
    [][UntrainedPredict =>
          /\ ml_return'.raised = "UntrainedModelError"
          /\ ml_return'.value = Null]_vars

\* what holds instead: the call raises nothing and returns None
C22_UntrainedReturnsNone ==
    [][UntrainedPredict =>
          /\ ml_return'.raised = "no"
          /\ ml_return'.value = Null]_vars

\* is_trained is set only by a completed train or load_model: a model that
\* is not trained has never been fitted, or holds only the estimator of a
\* load_model that failed half way
C22_TrainedFlag ==
    /\ ml_model.is_trained => ml_model.model.fitted_on # Null
    /\ (ml_return # Null /\ ml_return.call = "train" /\ ml_return.raised = "no")
          => ml_model.is_trained

----------------------------------------------------------------------------
(* adjust_for_disaster_type as a function of its arguments                 *)

\* people_affected of the base needs explored, in tens
MaxTens == 2

FLOOD == <<"F", "L", "O", "O", "D">>
FlashFlood == <<"F", "l", "a", "s", "h", " ", "F", "l", "o", "o", "d">>
CycloneFlood == <<"C", "y", "c", "l", "o", "n", "e", " ", "F", "l", "o", "o", "d">>
fire == <<"f", "i", "r", "e">>
quake == <<"q", "u", "a", "k", "e">>
EmptyType == <<>>

TypeStrings == {flood, FLOOD, FlashFlood, CycloneFlood, fire, quake, EmptyType, Tsunami, Drought}

BaseNeeds == {calculate_base_need(10 * k, s) : k \in 0..MaxTens, s \in Severities}

InitAdjust ==
    /\ pc = "idle"
    /\ NoAllocation
    /\ df = <<>>
    /\ NoPreprocessing
    /\ NoPasses
    /\ NoSession
    /\ NoModel
    /\ adjust_args \in [base_needs : BaseNeeds, disaster_type : TypeStrings]
    /\ adjust_return = Null

\* the call adjust_for_disaster_type(base_needs, disaster_type)
CallAdjust ==
    /\ adjust_return' = adjust_for_disaster_type(adjust_args.base_needs,
                                                 adjust_args.disaster_type)
    /\ UNCHANGED <<pc, adjust_args, allocator_vars, preprocessor_vars, model_vars,
                   passes_vars, session_vars>>

NextAdjust == CallAdjust

SpecAdjust == InitAdjust /\ [][NextAdjust]_vars

\* the table entry the matching rule selects for a type: the first, in table
\* order, whose key contains or is contained in the lower-cased type; 0 if none
RECURSIVE FirstEntry(_, _)
FirstEntry(t, e) ==
    IF e > Len(disaster_adjustments) THEN 0
    ELSE IF \/ IsSubstring(disaster_adjustments[e].key, Lower(t))
            \/ IsSubstring(Lower(t), disaster_adjustments[e].key)
         THEN e
         ELSE FirstEntry(t, e + 1)

\* the factor, in tenths, entry e gives to a kind; 10 when it names none
FactorOf(e, r) ==
    IF e = 0 THEN 10
    ELSE LET fs == disaster_adjustments[e].factors
             at == {i \in 1..Len(fs) : fs[i][1] = r}
         IN  IF at = {} THEN 10 ELSE fs[CHOOSE i \in at : TRUE][2]

Adjusted == adjust_return # Null

\* C23: the needs returned are the base needs times the factors of exactly
\* the first table entry (flood, earthquake, cyclone, drought, landslide,
\* wildfire) whose key contains or is contained in the lower-cased type;
\* 'FLOOD' gives what 'flood' gives; the base needs come back unchanged when
\* no entry matches.
C23_TypeMatching ==
    Adjusted =>
        LET b == adjust_args.base_needs
            t == adjust_args.disaster_type
            e == FirstEntry(t, 1)
        IN  /\ adjust_return = [r \in Kinds |-> IntTrunc(b[r] * FactorOf(e, r), 10)]
            /\ t = FLOOD => /\ e = 1
                            /\ adjust_return = adjust_for_disaster_type(b, flood)
            /\ t = CycloneFlood => e = 1
            /\ t = EmptyType => e = 1
            /\ t = fire => e = 6
            /\ t = quake => e = 2
            /\ t = Drought => e = 4
            /\ t = Tsunami => /\ e = 0
                              /\ adjust_return = b

\* a type naming two keys was adjusted, visibly, with the factors of flood
C23_Witness ==
    /\ Adjusted
    /\ adjust_args.disaster_type = CycloneFlood
    /\ adjust_return # adjust_args.base_needs
    /\ adjust_return # adjust_for_disaster_type(adjust_args.base_needs, cyclone)
    /\ adjust_return = adjust_for_disaster_type(adjust_args.base_needs, flood)

----------------------------------------------------------------------------
(* Passes of two threads on one ResourceAllocator and one caller pool       *)

\* the threads that call allocate_resources
PassIds == 1..2

\* the caller's pool, object 1, and the copy each pass in progress works on
PassObjects == 1..3

PassDisasters == {
    << [severity |-> "High", people_affected |-> MaxPeople, disaster_type |-> Tsunami] >>,
    << [severity |-> "Low", people_affected |-> MaxPeople, disaster_type |-> Tsunami],
       [severity |-> "High", people_affected |-> MaxPeople, disaster_type |-> Drought] >>,
    << [severity |-> "Medium", people_affected |-> 1, disaster_type |-> Drought],
       [severity |-> "Medium", people_affected |-> MaxPeople, disaster_type |-> Tsunami] >> }

\* a pool that covers little, one without water, and one with no item for
\* Shelter Units
PassPools == {[r \in Kinds |-> MaxPool],
              [r \in Kinds |-> IF r = "Water Packs" THEN 0 ELSE MaxPool],
              [r \in Kinds \ {"Shelter Units"} |-> MaxPool]}

\* a thread that has not called yet
NoPass ==
    [pc |-> "none", disasters |-> <<>>, pool_initial |-> Null,
     available_resources |-> NoRef, remaining_resources |-> NoRef,
     disaster_needs |-> <<>>, total_needs |-> [r \in Kinds |-> 0],
     allocations |-> <<>>, result |-> Null]

InitPasses ==
    /\ pc = "idle"
    /\ NoAllocation
    /\ df = <<>>
    /\ NoPreprocessing
    /\ NoCall
    /\ NoModel
    /\ NoSession
    /\ passes = [p \in PassIds |-> NoPass]
    /\ caller_pool \in PassPools
    /\ pass_heap = [o \in PassObjects |-> IF o = 1 THEN caller_pool ELSE Null]
    /\ call_log = Null

PassesFrame == UNCHANGED <<pc, allocator_vars, preprocessor_vars, model_vars, call_vars,
                           session_vars>>

\* the pool a pass starts from, whatever the thread's last pass left
StartingPool_Retained(previous, h, src) ==
    IF previous.result # Null
    THEN LET new == CHOOSE o \in DOMAIN h : h[o] = Null
         IN  <<[h EXCEPT ![new] = previous.result.summary_stats.remaining_resources], new>>
    ELSE dict_copy(h, src)

\* remaining_resources = available_resources.copy(): a local of the call,
\* nothing of an earlier pass is kept
StartingPool(previous, h, src) == dict_copy(h, src)

\* the caller refills its pool while no pass is running
SetPool ==
    \E v \in PassPools \ {caller_pool} :
        /\ \A p \in PassIds : passes[p].pc # "allocating"
        /\ caller_pool' = v
        /\ pass_heap' = [pass_heap EXCEPT ![1] = v]
        /\ UNCHANGED <<passes, call_log>>
        /\ PassesFrame

\* what the caller noted of a call, once a later call replaced it
Replaced(log, p) ==
    IF log = Null THEN log
    ELSE [log EXCEPT !.replaced = @ \/ log.thread = p,
                     !.later_calls = Min(@ + 1, 2)]

\* thread p calls allocate_resources(ds, pool): steps 1 and 2 and the copy
PassBegin(p) ==
    \E ds \in PassDisasters :
        LET infos == [i \in 1..Len(ds) |-> DisasterInfo(ds, "Unknown", i)]
            copied == StartingPool(passes[p], pass_heap, 1)
        IN  /\ passes[p].pc # "allocating"
            /\ passes' = [passes EXCEPT ![p] =
                   [pc |-> "allocating", disasters |-> ds, pool_initial |-> caller_pool,
                    available_resources |-> 1, remaining_resources |-> copied[2],
                    disaster_needs |-> SortByPriority(infos),
                    total_needs |-> [r \in Kinds |-> TotalOf(infos, "needs", r)],
                    allocations |-> <<>>, result |-> Null]]
            /\ pass_heap' = copied[1]
            /\ call_log' = Replaced(call_log, p)
            /\ UNCHANGED caller_pool
            /\ PassesFrame

\* the dict objects once a call has ended and its copy is dropped
Dropped(h, frame) ==
    IF frame.remaining_resources = frame.available_resources THEN h
    ELSE [h EXCEPT ![frame.remaining_resources] = Null]

\* step 3 of thread p: one iteration of the loop over the sorted disasters
PassAllocateNext(p) ==
    LET frame == passes[p]
    IN  /\ frame.pc = "allocating"
        /\ Len(frame.allocations) < Len(frame.disaster_needs)
        /\ LET disaster_info == frame.disaster_needs[Len(frame.allocations) + 1]
               allocation == _allocate_to_single_disaster(
                                 disaster_info, pass_heap[frame.remaining_resources],
                                 frame.total_needs)
               updated == UpdateRemaining(pass_heap[frame.remaining_resources],
                                          allocation.allocated, resource_types)
               stored == [pass_heap EXCEPT ![frame.remaining_resources] = updated.dict]
           IN  IF updated.raised
               THEN /\ passes' = [passes EXCEPT ![p].pc = "KeyError",
                                                ![p].allocations = Append(@, allocation),
                                                ![p].remaining_resources = NoRef]
                    /\ pass_heap' = Dropped(stored, frame)
               ELSE /\ passes' = [passes EXCEPT ![p].allocations = Append(@, allocation)]
                    /\ pass_heap' = stored
        /\ UNCHANGED <<caller_pool, call_log>>
        /\ PassesFrame

\* step 4 and the return of thread p; the caller may note the first call
PassReturn(p) ==
    LET frame == passes[p]
        summary == _prepare_allocation_summary(
                       frame.disasters, frame.allocations,
                       pass_heap[frame.available_resources],
                       pass_heap[frame.remaining_resources], frame.total_needs)
    IN  /\ frame.pc = "allocating"
        /\ Len(frame.allocations) = Len(frame.disaster_needs)
        /\ passes' = [passes EXCEPT ![p].pc = "done",
                                    ![p].result = summary,
                                    ![p].remaining_resources = NoRef]
        /\ pass_heap' = Dropped(pass_heap, frame)
        /\ call_log' \in IF call_log # Null THEN {call_log}
                          ELSE {Null, [thread |-> p, disasters |-> frame.disasters,
                                       available_resources |-> frame.pool_initial,
                                       result |-> summary, replaced |-> FALSE,
                                       later_calls |-> 0]}
        /\ UNCHANGED caller_pool
        /\ PassesFrame

NextPasses ==
    \/ SetPool
    \/ \E p \in PassIds : PassBegin(p)
    \/ \E p \in PassIds : PassAllocateNext(p)
    \/ \E p \in PassIds : PassReturn(p)

SpecPasses == InitPasses /\ [][NextPasses]_vars

\* a pass run alone from its first step to its last: the allocations, what
\* is left of the copy, and whether the decrement raised
RECURSIVE AllocateAlone(_, _, _, _)
AllocateAlone(infos, remaining, totals, allocs) ==
    IF Len(allocs) = Len(infos)
    THEN [allocations |-> allocs, remaining |-> remaining, raised |-> FALSE]
    ELSE LET allocation == _allocate_to_single_disaster(infos[Len(allocs) + 1],
                                                        remaining, totals)
             updated == UpdateRemaining(remaining, allocation.allocated, resource_types)
         IN  IF updated.raised
             THEN [allocations |-> Append(allocs, allocation), remaining |-> updated.dict,
                   raised |-> TRUE]
             ELSE AllocateAlone(infos, updated.dict, totals, Append(allocs, allocation))

RunAlone(ds, pool) ==
    LET infos == [i \in 1..Len(ds) |-> DisasterInfo(ds, "Unknown", i)]
        totals == [r \in Kinds |-> TotalOf(infos, "needs", r)]
        alone == AllocateAlone(SortByPriority(infos), pool, totals, <<>>)
    IN  [raised |-> alone.raised,
         result |-> _prepare_allocation_summary(ds, alone.allocations, pool,
                                                alone.remaining, totals)]

SameCall(a, b) ==
    /\ a.disasters = b.disasters
    /\ a.pool_initial = b.pool_initial

\* C24: a call's result depends only on its disasters and its pool: a call
\* the caller repeats with the inputs of a call it noted, after any number
\* of other calls, returns the allocations, remaining pool and statistics
\* noted, and two threads that were given the same inputs hold the same
\* result; the caller's pool object holds what the caller put in it.
C24_NoStateBetweenPasses ==
    /\ pass_heap[1] = caller_pool
    /\ \A p \in PassIds :
           (/\ passes[p].pc = "done"
            /\ call_log # Null
            /\ passes[p].disasters = call_log.disasters
            /\ passes[p].pool_initial = call_log.available_resources)
           => passes[p].result = call_log.result
    /\ \A p, q \in PassIds :
           (/\ passes[p].pc = "done"
            /\ passes[q].pc = "done"
            /\ SameCall(passes[p], passes[q]))
           => passes[p].result = passes[q].result

\* the noted call is gone, two calls were started since: one repeats the
\* noted inputs on a pool that did not cover the needs, the other had other
\* disasters
C24_Witness ==
    /\ call_log # Null
    /\ call_log.replaced
    /\ call_log.later_calls = 2
    /\ \E p, q \in PassIds :
           /\ passes[p].pc = "done"
           /\ passes[q].pc = "done"
           /\ passes[p].disasters = call_log.disasters
           /\ passes[p].pool_initial = call_log.available_resources
           /\ passes[p].result = call_log.result
           /\ passes[q].disasters # call_log.disasters
           /\ Len(passes[p].disasters) = 2
           /\ \E r \in Kinds :
                  passes[p].result.summary_stats.total_allocated[r] \in
                      1..(passes[p].result.summary_stats.total_needs[r] - 1)

\* the sum of what a pass has allocated of a kind so far
OwnAllocated(frame, r) == TotalOf(frame.allocations, "allocated", r)

\* C25: two passes interleaved on one allocator and one caller pool object
\* do not share pool state: the copy a pass works on holds the pool it was
\* given minus its own allocations only, and a pass returns, or raises,
\* exactly as it does when run alone.
C25_PassesIsolated ==
    \A p \in PassIds :
        LET frame == passes[p]
            alone == RunAlone(frame.disasters, frame.pool_initial)
        IN  /\ frame.pc = "allocating" =>
                   \A r \in DOMAIN frame.pool_initial :
                       pass_heap[frame.remaining_resources][r] =
                           frame.pool_initial[r] - OwnAllocated(frame, r)
            /\ frame.pc = "done" => /\ ~alone.raised
                                    /\ frame.result = alone.result
            /\ frame.pc = "KeyError" => /\ alone.raised
                                        /\ frame.allocations = alone.result.allocations

\* both passes are half way, each has taken units off its own copy
C25_Witness ==
    /\ \A p \in PassIds :
           /\ passes[p].pc = "allocating"
           /\ Len(passes[p].disaster_needs) = 2
           /\ Len(passes[p].allocations) = 1
           /\ OwnAllocated(passes[p], "Food Kits") > 0
    /\ passes[1].remaining_resources # passes[2].remaining_resources
    /\ passes[1].disasters # passes[2].disasters

----------------------------------------------------------------------------
(* The loop of a pass, step by step *)

\* the copy of the pool the pass decrements, before and after a step
RemainingNow == heap[remaining_resources]

RemainingNext == heap'[remaining_resources']

\* what the loop of a pass does to the pool and to the records at each step
DepletingStep ==
    /\ RecordAdded =>
           /\ \A r \in DOMAIN RemainingNow : RemainingNext[r] <= RemainingNow[r]
           /\ \A r \in DOMAIN RemainingNow :
                  RemainingNow[r] = pool_initial[r] - AllocatedTotal(r)
           /\ NewRecord = _allocate_to_single_disaster(
                              disaster_needs[Len(allocations) + 1], RemainingNow, total_needs)
    /\ \A i \in 1..Len(allocations) :
           /\ Len(allocations') >= i
           /\ allocations'[i] = allocations[i]

\* C26: during a pass the remaining quantity of every kind never increases
\* from one processed disaster to the next, the quantity offered to a
\* disaster is the initial pool minus the allocations of the disasters
\* processed before it, and a record once produced is never changed.
C26_DepletingPool == [][pc = "allocating" => DepletingStep]_vars

\* the same, for the passes over a pool of non-negative quantities
C26_DepletingValidPool == [][(pc = "allocating" /\ ValidPool) => DepletingStep]_vars

\* a pass over a pool with a negative quantity added that quantity back
C26_NegativePoolGrows ==
    /\ pc = "allocating"
    /\ FullPool
    /\ Len(allocations) = 1
    /\ \E r \in Kinds : RemainingNow[r] > pool_initial[r]

----------------------------------------------------------------------------
(* Ties of the priority score *)

\* two disasters of the pass with the same score
TiedPairs ==
    {ij \in (1..Len(disaster_needs)) \X (1..Len(disaster_needs)) :
        /\ ij[1] < ij[2]
        /\ disaster_needs[ij[1]].priority_score = disaster_needs[ij[2]].priority_score}

\* C27 (as stated): two disasters of a pass have equal priority scores only
\* if they have the same severity and the same people_affected, 0 and 1
\* included.
C27_TiesAsStated ==
    \A ij \in TiedPairs :
        /\ disaster_needs[ij[1]].severity = disaster_needs[ij[2]].severity
        /\ disaster_needs[ij[1]].people_affected = disaster_needs[ij[2]].people_affected

\* C27 (amended): two disasters of a pass have equal priority scores exactly
\* when they have the same severity and the same max(1, people_affected);
\* people_affected 0 and 1 tie.
C27_TiesOfSameRank ==
    \A i, j \in 1..Len(disaster_needs) :
        i < j =>
            (<<i, j>> \in TiedPairs <=>
                /\ disaster_needs[i].severity = disaster_needs[j].severity
                /\ Max(1, disaster_needs[i].people_affected) =
                       Max(1, disaster_needs[j].people_affected))

\* a pass sorted a disaster of no people and one of one person, which tie
C27_Witness ==
    /\ pc = "allocating"
    /\ \E ij \in TiedPairs :
           /\ disaster_needs[ij[1]].people_affected = 0
           /\ disaster_needs[ij[2]].people_affected = 1

----------------------------------------------------------------------------
(* The accounts of the summary *)

\* the sum over the returned records of one field of a kind
RecordsSum(field, r) ==
    SumSeq([j \in 1..Len(result.allocations) |-> result.allocations[j][field][r]])

\* C29: in the summary of a pass over a pool with all four kinds, for every
\* kind, total_allocated + remaining_resources is the initial pool,
\* total_allocated is the sum of allocated over the records and total_needs
\* the sum of needed over the records.
C29_ExactAccounting ==
    (Returned /\ FullPool) =>
        \A r \in Kinds :
            /\ result.summary_stats.total_allocated[r] + RemainingOf(r) = pool_initial[r]
            /\ result.summary_stats.total_allocated[r] = RecordsSum("allocated", r)
            /\ result.summary_stats.total_needs[r] = RecordsSum("needed", r)

\* a summary of two records with a kind both received and a need left unmet
C29_Witness ==
    /\ Returned
    /\ FullPool
    /\ ValidPool
    /\ Len(result.allocations) = 2
    /\ \E r \in Kinds :
           /\ \A j \in 1..2 : result.allocations[j].allocated[r] > 0
           /\ RemainingOf(r) < pool_initial[r]
    /\ \E r \in Kinds : \E j \in 1..2 : result.allocations[j].unmet_needs[r] > 0

----------------------------------------------------------------------------
(* The dashboard session: inventory, prediction result, manual deployments  *)

\* manual deployments explored in one session
MaxDeploys == 2

\* the keys of the inventory, in the order of the dict
InventoryResources == <<"Food Kits", "Water Packs", "Medicine Kits", "Shelter Units",
                        "Blankets", "First Aid Kits">>

InventoryKeys == {InventoryResources[i] : i \in 1..Len(InventoryResources)}

\* st.session_state.inventory as first created
initial_inventory ==
    [r \in InventoryKeys |->
        [available |-> CASE r = "Food Kits" -> 8500
                         [] r = "Water Packs" -> 12000
                         [] r = "Medicine Kits" -> 3500
                         [] r = "Shelter Units" -> 2200
                         [] r = "Blankets" -> 5000
                         [] r = "First Aid Kits" -> 1800,
         allocated |-> 0]]

\* max_value of the six '... Needed' inputs (min_value is 0)
requirement_max ==
    [r \in InventoryKeys |->
        CASE r = "Food Kits" -> 10000
          [] r = "Water Packs" -> 20000
          [] r = "Medicine Kits" -> 5000
          [] r = "Shelter Units" -> 2000
          [] r = "Blankets" -> 10000
          [] r = "First Aid Kits" -> 3000]

\* the requirements typed in: nothing, a hundred of each, the most of each,
\* or the most of First Aid Kits only
UserRequirements ==
    {[r \in InventoryKeys |-> 0], [r \in InventoryKeys |-> 100], requirement_max,
     [r \in InventoryKeys |-> IF r = "First Aid Kits" THEN requirement_max[r] ELSE 0]}

\* the impact numbers typed in with them
FormInputs ==
    {[disaster_type |-> "flood", people_affected |-> 500, deaths |-> 5, damages |-> 500000],
     [disaster_type |-> "earthquake", people_affected |-> 20000, deaths |-> 150,
      damages |-> 15000000]}

InitDashboard ==
    /\ pc = "idle"
    /\ NoAllocation
    /\ df = <<>>
    /\ NoPreprocessing
    /\ NoPasses
    /\ NoCall
    /\ NoModel
    /\ NoSession

DashboardFrame == UNCHANGED <<pc, allocator_vars, preprocessor_vars, model_vars, call_vars,
                              passes_vars>>

\* if 'inventory' not in st.session_state: create it
EnsureInventory(inv) == IF inv = Null THEN initial_inventory ELSE inv

\* the quotient allocated / needed of the dict's last resource, which the
\* loop of sync_allocation_data leaves in fulfillment_rate; 1 is 1/1
LastFulfillment(needed, allocated) ==
    LET last == InventoryResources[Len(InventoryResources)]
    IN  IF needed[last] > 0 THEN [num |-> allocated[last], den |-> needed[last]]
        ELSE [num |-> 1, den |-> 1]

\* sync_allocation_data: the allocated amounts of the stored prediction
\* result are overwritten with those of the inventory
sync_allocation_data(inv, stored) ==
    IF inv = Null \/ stored = Null THEN stored
    ELSE LET allocated == [r \in InventoryKeys |-> inv[r].allocated]
         IN  [stored EXCEPT
                 !.allocation_result.allocated = allocated,
                 !.allocation_result.fulfillment_rate =
                     LastFulfillment(stored.allocation_result.needed, allocated)]

\* allocated = min(needed, available) for a need above 0, else 0
AutoAllocation(needed, available) == IF needed > 0 THEN Min(needed, available) ELSE 0

\* the button 'Predict Severity & Allocate Resources' and the rendering of
\* the result that follows it
PredictAndAllocate ==
    \E form \in FormInputs, user_requirements \in UserRequirements :
        LET scored == predict_severity(form.people_affected, form.deaths, form.damages,
                                       form.disaster_type)
            inv == EnsureInventory(inventory)
            allocated == [r \in InventoryKeys |->
                             AutoAllocation(user_requirements[r], inv[r].available)]
            total_needed == SumSeq([i \in 1..Len(InventoryResources) |->
                                       user_requirements[InventoryResources[i]]])
            total_allocated == SumSeq([i \in 1..Len(InventoryResources) |->
                                          allocated[InventoryResources[i]]])
            updated == [r \in InventoryKeys |-> [inv[r] EXCEPT !.allocated = allocated[r]]]
            stored == [severity |-> scored[1],
                       probabilities |-> scored[2],
                       allocation_result |->
                           [needed |-> user_requirements,
                            allocated |-> allocated,
                            fulfillment_rate |->
                                IF total_needed > 0
                                THEN [num |-> total_allocated, den |-> total_needed]
                                ELSE [num |-> 1, den |-> 1]],
                       input_data |-> form,
                       manual_overrides |-> [r \in InventoryKeys |-> 0]]
        IN  /\ inventory' = updated
            /\ prediction_result' = sync_allocation_data(updated, stored)
            /\ UNCHANGED manual_allocations
            /\ DashboardFrame

\* the Resource Management page shown: the inventory is created if missing
ShowResourcesPage ==
    /\ inventory' = EnsureInventory(inventory)
    /\ UNCHANGED <<prediction_result, manual_allocations>>
    /\ DashboardFrame

\* the Analytics page shown: it starts with sync_allocation_data()
ShowAnalyticsPage ==
    /\ prediction_result' = sync_allocation_data(inventory, prediction_result)
    /\ UNCHANGED <<inventory, manual_allocations>>
    /\ DashboardFrame

\* max_value of 'Quantity to Allocate', whatever is allocated already
max_available_Total(inv, selected_resource) == inv[selected_resource].available

\* max_value of 'Quantity to Allocate'
max_available(inv, selected_resource) ==
    inv[selected_resource].available - inv[selected_resource].allocated

\* the quantities tried: none, the input's default, the most it admits
Quantities(most) == {0, Min(100, most), most}

\* the button 'Deploy Resources' on the page the inventory was shown on
DeployResources ==
    /\ inventory # Null
    /\ \E selected_resource \in InventoryKeys :
          \E quantity \in Quantities(max_available(inventory, selected_resource)) :
              IF quantity > 0
              THEN LET deployed == [inventory EXCEPT
                                       ![selected_resource].allocated = @ + quantity]
                       record == [resource |-> selected_resource, quantity |-> quantity,
                                  status |-> "Deployed"]
                       noted == IF prediction_result = Null THEN prediction_result
                                ELSE [prediction_result EXCEPT
                                         !.manual_overrides[selected_resource] = @ + quantity]
                   IN  /\ Len(manual_allocations) < MaxDeploys
                       /\ inventory' = deployed
                       /\ manual_allocations' = Append(manual_allocations, record)
                       /\ prediction_result' = sync_allocation_data(deployed, noted)
              ELSE UNCHANGED session_vars
    /\ DashboardFrame

NextDashboard ==
    \/ PredictAndAllocate
    \/ ShowResourcesPage
    \/ ShowAnalyticsPage
    \/ DeployResources

SpecDashboard == InitDashboard /\ [][NextDashboard]_vars

Predicted == prediction_result # Null

\* the units of a kind deployed by hand since the stored prediction
Override(r) == prediction_result.manual_overrides[r]

\* what the result table shows as allocated: automatic + manual override
DisplayedTotal(r) == prediction_result.allocation_result.allocated[r] + Override(r)

\* what the prediction allocated of a kind by itself
Automatic(r) ==
    AutoAllocation(prediction_result.allocation_result.needed[r], inventory[r].available)

\* C28: after any sequence of 'Deploy Resources' following a prediction the
\* stored automatic allocated[resource] is what the prediction allocated,
\* the manual quantity is held in manual_overrides[resource] only, and the
\* displayed total, automatic + manual override, counts each unit deployed
\* by hand once.
C28_OverridesSeparate ==
    Predicted =>
        \A r \in InventoryKeys :
            /\ prediction_result.allocation_result.allocated[r] = Automatic(r)
            /\ DisplayedTotal(r) = Automatic(r) + Override(r)

\* what the code keeps instead: the stored allocated is the inventory's,
\* manual units included, so the displayed total counts them twice
C28_OverridesCountedTwice ==
    Predicted =>
        \A r \in InventoryKeys :
            /\ prediction_result.allocation_result.allocated[r] = inventory[r].allocated
            /\ inventory[r].allocated = Automatic(r) + Override(r)
            /\ DisplayedTotal(r) = Automatic(r) + 2 * Override(r)

\* C30: in a session, after any sequence of predictions and manual
\* deployments, every inventory resource has 0 <= allocated <= available; a
\* prediction leaves allocated at min(needed, available), and a deployment
\* adds to it at most what was left.
C30_InventoryBounds ==
    inventory # Null =>
        \A r \in InventoryKeys :
            /\ 0 <= inventory[r].allocated
            /\ inventory[r].allocated <= inventory[r].available
            /\ inventory[r].available = initial_inventory[r].available
            /\ (Predicted /\ Override(r) = 0) => inventory[r].allocated = Automatic(r)
            /\ Predicted => inventory[r].allocated <= Automatic(r) + Override(r)

\* after a prediction that allocated part of a kind, what was left of it was
\* deployed by hand, in two deployments
C30_Witness ==
    /\ Predicted
    /\ Len(manual_allocations) = 2
    /\ \E r \in InventoryKeys :
           /\ Automatic(r) > 0
           /\ Override(r) > 100
           /\ manual_allocations[1].resource = r
           /\ manual_allocations[2].resource = r
           /\ inventory[r].allocated = inventory[r].available

====
